---- MODULE Spec2Model ----
(***************************************************************************)
(* Model of notebooks/socialfinance.py: class Bank, the closed-form        *)
(* contract model of a monitored lending zone.                             *)
(*                                                                         *)
(* Numbers.  The program computes with IEEE doubles; the model computes    *)
(* with exact rationals [n, d] in lowest terms (d > 0), so "equal within   *)
(* floating tolerance" becomes exact equality.  A division by zero gives   *)
(* Undef, which stands for "no finite value": Python raises                *)
(* ZeroDivisionError on float operands and numpy yields inf/nan on         *)
(* float64 operands.  Undef propagates through every later operation.      *)
(***************************************************************************)
EXTENDS Integers, Sequences, FiniteSets, TLC

VARIABLES bank, call

vars == <<bank, call>>

----------------------------------------------------------------------------
(* Exact rational arithmetic *)

RECURSIVE GCD(_, _)
GCD(a, b) == IF b = 0 THEN a ELSE GCD(b, a % b)

Abs(x) == IF x < 0 THEN -x ELSE x

Undef == [n |-> 0, d |-> 0]

IsDef(x) == x.d # 0

Frac(n, d) ==
    IF d = 0 THEN Undef
    ELSE LET g == GCD(Abs(n), Abs(d))
             s == IF d < 0 THEN -1 ELSE 1
         IN [n |-> s * (n \div g), d |-> s * (d \div g)]

Num(k) == [n |-> k, d |-> 1]

Add(x, y) ==
    IF ~IsDef(x) \/ ~IsDef(y) THEN Undef
    ELSE LET g == GCD(x.d, y.d)
         IN Frac(x.n * (y.d \div g) + y.n * (x.d \div g), (x.d \div g) * y.d)

Neg(x) == IF IsDef(x) THEN [n |-> -x.n, d |-> x.d] ELSE Undef

Sub(x, y) == Add(x, Neg(y))

Mul(x, y) ==
    IF ~IsDef(x) \/ ~IsDef(y) THEN Undef
    ELSE LET g1 == GCD(Abs(x.n), y.d)
             g2 == GCD(Abs(y.n), x.d)
         IN [n |-> (x.n \div g1) * (y.n \div g2),
             d |-> (x.d \div g2) * (y.d \div g1)]

Div(x, y) ==
    IF ~IsDef(x) \/ ~IsDef(y) \/ y.n = 0 THEN Undef
    ELSE Mul(x, Frac(y.d, y.n))

\* comparisons are used on defined values only
Lt(x, y) == LET g == GCD(x.d, y.d)
            IN x.n * (y.d \div g) < y.n * (x.d \div g)
Le(x, y) == x = y \/ Lt(x, y)
Gt(x, y) == Lt(y, x)
Ge(x, y) == Le(y, x)

\* np.minimum: nan propagates
Minimum(x, y) ==
    IF ~IsDef(x) \/ ~IsDef(y) THEN Undef
    ELSE IF Lt(y, x) THEN y ELSE x

----------------------------------------------------------------------------
(* Bounds of the model *)

MaxLen == 2     \* longest array of asset levels passed to breturn / nreach
MaxAK == 1      \* asset levels 0, Amax, ..., MaxAK * Amax
MaxMK == 3      \* monitoring levels 0, 10, ..., MaxMK * 10
MaxBetaK == 4   \* beta = k / 2 for k in -1 .. MaxBetaK

\* self.Amax, the upper plot limit of the asset axis
Amax == 140

\* betas between the grid points: just below gamma, between gamma and the
\* beta at which mcross() = mmax(), and the beta at which the denominator of
\* mon, (alpha-1)*beta*p + gamma*q, vanishes
ExtraBetas == {Frac(9, 10), Frac(5, 4), Frac(164, 97)}

Betas == {Frac(k, 2) : k \in -1 .. MaxBetaK} \cup ExtraBetas

----------------------------------------------------------------------------
(* Bank.__init__: the fields of an instance *)

NoBank == [beta |-> Undef]

NewBank(A, beta) ==
    [A     |-> A,
     gamma |-> Num(1),
     beta  |-> beta,
     B0    |-> Num(30),
     alpha |-> Frac(1, 2),
     X     |-> Num(200),
     I     |-> Num(100),
     p     |-> Frac(97, 100),
     q     |-> Frac(82, 100),
     F     |-> Num(0),
     f     |-> Num(30),
     K     |-> Num(12000),
     Amax  |-> Num(Amax)]

----------------------------------------------------------------------------
(* The closed forms *)

B(s, m) == Sub(s.B0, Mul(s.alpha, m))

AMe(s, m) ==
    Add(Add(Sub(Mul(Div(s.p, Sub(s.p, s.q)), B(s, m)),
                Sub(Mul(s.p, s.X), Mul(s.beta, s.I))),
            m),
        s.f)

\* slip: the premium term with (gam - beta) in place of (beta - gam)
AMPremiumSign(s, m) ==
    Add(Add(Add(Sub(Mul(Div(s.p, Sub(s.p, s.q)), B(s, m)),
                    Sub(Mul(s.p, s.X), Mul(s.gamma, s.I))),
                m),
            Mul(Div(Sub(s.gamma, s.beta), s.beta),
                Div(Mul(s.q, m), Sub(s.p, s.q)))),
        s.f)

AM(s, m) ==
    Add(Add(Add(Sub(Mul(Div(s.p, Sub(s.p, s.q)), B(s, m)),
                    Sub(Mul(s.p, s.X), Mul(s.gamma, s.I))),
                m),
            Mul(Div(Sub(s.beta, s.gamma), s.beta),
                Div(Mul(s.q, m), Sub(s.p, s.q)))),
        s.f)

Im(s, m) == Div(Mul(Mul(Div(Num(1), s.beta), s.q), m), Sub(s.p, s.q))

\* slip: the crossing level without the factor beta
mcrossNoBeta(s) == Div(Mul(s.I, Sub(s.p, s.q)), s.q)

mcross(s) == Div(Mul(Mul(s.beta, s.I), Sub(s.p, s.q)), s.q)

Across(s) == AM(s, mcross(s))

mmax(s) == Sub(Sub(Mul(s.p, s.X), Mul(s.beta, s.I)), s.f)

Amin(s) == AMe(s, mmax(s))

\* slip: alpha in place of (alpha - 1)
monDenAlpha(s) == Add(Mul(Mul(s.alpha, s.beta), s.p), Mul(s.gamma, s.q))

monDen(s) == Add(Mul(Mul(Sub(s.alpha, Num(1)), s.beta), s.p), Mul(s.gamma, s.q))

\* slip: the intercept of the equity-only curve, as in monE
monFromAMe(s, A) ==
    LET AHI == AMe(s, Num(0))
    IN Div(Mul(Sub(AHI, A), Mul(s.beta, Sub(s.p, s.q))), monDen(s))

mon(s, A) ==
    LET AHI == AM(s, Num(0))
    IN Div(Mul(Sub(AHI, A), Mul(s.beta, Sub(s.p, s.q))), monDen(s))

monEDen(s) == Add(s.q, Mul(Sub(s.alpha, Num(1)), s.p))

monE(s, A) ==
    LET AHI == AMe(s, Num(0))
    IN Mul(Sub(AHI, A), Div(Sub(s.p, s.q), monEDen(s)))

\* slip: the larger of the two monitoring levels
minmonLarger(s, A) ==
    IF ~IsDef(monE(s, A)) \/ ~IsDef(mon(s, A)) THEN Undef
    ELSE IF Lt(monE(s, A), mon(s, A)) THEN mon(s, A) ELSE monE(s, A)

minmon(s, A) == Minimum(monE(s, A), mon(s, A))

----------------------------------------------------------------------------
(* Bank.breturn: borrower return, one element of the comprehension *)

\* slip: the boundary Across() taken by the leveraged branch (a >= Across())
breturnBranchClosed(s, a) ==
    LET AM0 == AM(s, Num(0))
        Ac == Across(s)
    IN IF Gt(a, AM0) THEN 1
       ELSE IF Le(a, AM0) /\ Ge(a, Ac) THEN 2
       ELSE IF Le(a, Ac) /\ Ge(a, Amin(s)) THEN 3
       ELSE 4

\* the branch of the conditional chain that element a takes (1 = first)
breturnBranch(s, a) ==
    LET AM0 == AM(s, Num(0))
        Ac == Across(s)
    IN IF Gt(a, AM0) THEN 1
       ELSE IF Le(a, AM0) /\ Gt(a, Ac) THEN 2
       ELSE IF Le(a, Ac) /\ Ge(a, Amin(s)) THEN 3
       ELSE 4

\* p * X - gam * I - f
breturnNoMonitor(s) == Sub(Sub(Mul(s.p, s.X), Mul(s.gamma, s.I)), s.f)

\* slip: the monitoring cost without the premium factor
breturnLeveragedNoPremium(s, a) == Sub(breturnNoMonitor(s), mon(s, a))

\* p * X - gam * I - f - mon(a) * (1 + ((beta - gam) / beta) * (q / (p - q)))
breturnLeveraged(s, a) ==
    Sub(breturnNoMonitor(s),
        Mul(mon(s, a),
            Add(Num(1), Mul(Div(Sub(s.beta, s.gamma), s.beta),
                            Div(s.q, Sub(s.p, s.q))))))

\* slip: the monitoring cost added instead of subtracted
breturnEquityPlus(s, a) ==
    Add(Sub(Sub(Mul(s.p, s.X), Mul(s.beta, s.I)), s.f), monE(s, a))

\* p * X - beta * I - f - monE(a)
breturnEquity(s, a) ==
    Sub(Sub(Sub(Mul(s.p, s.X), Mul(s.beta, s.I)), s.f), monE(s, a))

breturnElem(s, a) ==
    LET br == breturnBranch(s, a)
    IN CASE br = 1 -> breturnNoMonitor(s)
         [] br = 2 -> breturnLeveraged(s, a)
         [] br = 3 -> breturnEquity(s, a)
         [] OTHER -> Num(0)

\* the first comparison evaluates AM(0), which divides by beta: with
\* beta = 0 the call raises ZeroDivisionError and returns nothing
breturnRaises(s, A) == A # <<>> /\ ~IsDef(AM(s, Num(0)))

breturn(s, A) ==
    IF breturnRaises(s, A) THEN <<>>
    ELSE [i \in 1 .. Len(A) |-> breturnElem(s, A[i])]

----------------------------------------------------------------------------
(* Bank.nreach: borrowers reached with K of intermediary capital *)

NaN == [tag |-> "nan", val |-> Undef]
Inf == [tag |-> "inf", val |-> Undef]
Val(x) == [tag |-> "num", val |-> x]

nreachBranch(s, a) ==
    LET AM0 == AM(s, Num(0))
        Ac == Across(s)
    IN IF Gt(a, AM0) THEN 1
       ELSE IF Le(a, AM0) /\ Gt(a, Ac) THEN 2
       ELSE IF Le(a, Ac) /\ Ge(a, Amin(s)) THEN 3
       ELSE 4

\* Im(mon(a)) - F, the denominator of the leveraged branch
nreachDen(s, a) == Sub(Im(s, mon(s, a)), s.F)

\* K / 0 is inf with a RuntimeWarning when a is a numpy float64
nreachLeveraged(s, a) ==
    LET den == nreachDen(s, a)
    IN IF IsDef(den) /\ den.n = 0 THEN Inf ELSE Val(Div(s.K, den))

nreachElem(s, a) ==
    LET br == nreachBranch(s, a)
    IN CASE br = 1 -> NaN
         [] br = 2 -> nreachLeveraged(s, a)
         [] br = 3 -> Val(Div(s.K, Add(s.I, s.F)))
         [] OTHER -> Val(Num(0))

\* elt is the type of the elements of A: "float64" (A is an ndarray) or
\* "float" (A is a list of Python floats, where K / 0.0 raises)
nreachRaises(s, A, elt) ==
    \/ A # <<>> /\ ~IsDef(AM(s, Num(0)))
    \/ elt = "float" /\ \E i \in 1 .. Len(A) : nreachElem(s, A[i]) = Inf

nreach(s, A, elt) ==
    IF nreachRaises(s, A, elt) THEN <<>>
    ELSE [i \in 1 .. Len(A) |-> nreachElem(s, A[i])]

----------------------------------------------------------------------------
(* Inputs *)

Built == IsDef(bank.beta)

AFixed == {Num(k * Amax) : k \in 0 .. MaxAK}

Half(x, y) == Div(Add(x, y), Num(2))

\* the fixed levels, the three thresholds of this bank and a level strictly
\* between each two of them
AGrid(s) ==
    LET lo == Amin(s)
        mid == Across(s)
        hi == AM(s, Num(0))
    IN AFixed \cup {x \in {lo, mid, hi, Half(lo, mid), Half(mid, hi)} : IsDef(x)}

MGrid(s) == {Num(k * 10) : k \in 0 .. MaxMK} \cup {mcross(s), mmax(s)}

ASeqs(S) == UNION {[1 .. n -> S] : n \in 0 .. MaxLen}

\* the array given to the constructor is stored in self.A and read by no
\* method: one array, the two ends of the plotted asset axis
InitAs == {<<Num(0), Num(Amax)>>}

EltTypes == {"float64", "float"}

----------------------------------------------------------------------------
(* The state machine: one instance, constructed once, then queried *)

Idle == call.op = "none"

Init ==
    /\ bank = NoBank
    /\ call = [op |-> "none", arg |-> Undef, ret |-> Undef, exc |-> "none",
               branch |-> <<>>]

\* Bank(A, beta): __init__ stores its arguments and checks nothing
Construct ==
    /\ ~Built
    /\ \E A \in InitAs, b \in Betas :
          /\ bank' = NewBank(A, b)
          /\ call' = [op |-> "__init__", arg |-> b, ret |-> Undef,
                      exc |-> "none", branch |-> <<>>]

Returns(op, arg, ret) ==
    /\ Idle
    /\ call' = [op |-> op, arg |-> arg, ret |-> ret,
                exc |-> IF IsDef(ret) THEN "none" ELSE "ZeroDivisionError",
                branch |-> <<>>]
    /\ UNCHANGED bank

CallAMe == Built /\ \E m \in MGrid(bank) : Returns("AMe", m, AMe(bank, m))

CallAM == Built /\ \E m \in MGrid(bank) : Returns("AM", m, AM(bank, m))

CallIm == Built /\ \E m \in MGrid(bank) : Returns("Im", m, Im(bank, m))

Callmcross == Built /\ Returns("mcross", Undef, mcross(bank))

CallAcross == Built /\ Returns("Across", Undef, Across(bank))

Callmmax == Built /\ Returns("mmax", Undef, mmax(bank))

CallAmin == Built /\ Returns("Amin", Undef, Amin(bank))

Callmon == Built /\ \E a \in AGrid(bank) : Returns("mon", a, mon(bank, a))

CallmonE == Built /\ \E a \in AGrid(bank) : Returns("monE", a, monE(bank, a))

Callminmon == Built /\ \E a \in AGrid(bank) : Returns("minmon", a, minmon(bank, a))

Callbreturn ==
    /\ Built
    /\ Idle
    /\ \E A \in ASeqs(AGrid(bank)) :
          /\ call' = [op |-> "breturn", arg |-> A, ret |-> breturn(bank, A),
                      exc |-> IF breturnRaises(bank, A)
                              THEN "ZeroDivisionError" ELSE "none",
                      branch |-> IF breturnRaises(bank, A) THEN <<>>
                                 ELSE [i \in 1 .. Len(A) |-> breturnBranch(bank, A[i])]]
          /\ UNCHANGED bank

Callnreach ==
    /\ Built
    /\ Idle
    /\ \E A \in ASeqs(AGrid(bank)), elt \in EltTypes :
          /\ call' = [op |-> "nreach", arg |-> A, ret |-> nreach(bank, A, elt),
                      exc |-> IF nreachRaises(bank, A, elt)
                              THEN "ZeroDivisionError" ELSE "none",
                      branch |-> IF nreachRaises(bank, A, elt) THEN <<>>
                                 ELSE [i \in 1 .. Len(A) |-> nreachBranch(bank, A[i])]]
          /\ UNCHANGED bank

\* the caller takes the result; the instance is ready for the next query
Done ==
    /\ Built
    /\ ~Idle
    /\ call' = [op |-> "none", arg |-> Undef, ret |-> Undef, exc |-> "none",
                branch |-> <<>>]
    /\ UNCHANGED bank

Next ==
    \/ Construct
    \/ CallAMe
    \/ CallAM
    \/ CallIm
    \/ Callmcross
    \/ CallAcross
    \/ Callmmax
    \/ CallAmin
    \/ Callmon
    \/ CallmonE
    \/ Callminmon
    \/ Callbreturn
    \/ Callnreach
    \/ Done

Spec == Init /\ [][Next]_vars

----------------------------------------------------------------------------
(* Vocabulary of the properties *)

Zero == Num(0)

\* the parameter constraints of the data model; only beta is an input
Valid(s) ==
    /\ IsDef(s.beta)
    /\ Gt(s.beta, Zero)
    /\ Gt(s.gamma, Zero)
    /\ Gt(s.I, Zero)
    /\ Gt(s.X, Zero)
    /\ Gt(s.q, Zero) /\ Lt(s.q, s.p) /\ Le(s.p, Num(1))
    /\ Ge(s.F, Zero) /\ Ge(s.f, Zero)

\* the four band conditions as the data model states them
InBand(s, a, k) ==
    CASE k = 1 -> Gt(a, AM(s, Zero))
      [] k = 2 -> Gt(a, Across(s)) /\ Le(a, AM(s, Zero))
      [] k = 3 -> Ge(a, Amin(s)) /\ Le(a, Across(s))
      [] OTHER -> Lt(a, Amin(s))

BandsOf(s, a) == {k \in 1 .. 4 : InBand(s, a, k)}

Ordered(s) == Le(Amin(s), Across(s)) /\ Le(Across(s), AM(s, Zero))

Elementwise == call.op \in {"breturn", "nreach"} /\ call.exc = "none"

----------------------------------------------------------------------------
(* C1 *)

\* C1 (as stated): for every valid parameter set, and so for every beta > 0
\* given to the constructor, Amin() <= Across() <= AM(0).
C1_RegimeOrdering ==
    (Built /\ Valid(bank) /\ call.op = "Across")
        => (Le(Amin(bank), call.ret) /\ Le(call.ret, AM(bank, Zero)))

\* C1 (amended): with the constructor's parameters and beta > 0, the ordering
\* Amin() <= Across() <= AM(0) holds exactly when mcross() <= mmax(), that is
\* exactly when beta <= 3362/2425.
C1_OrderingIffCrossFeasible ==
    (Built /\ Valid(bank) /\ call.op = "Across")
        => /\ (Le(Amin(bank), call.ret) /\ Le(call.ret, AM(bank, Zero)))
                  <=> Le(mcross(bank), mmax(bank))
           /\ Le(mcross(bank), mmax(bank)) <=> Le(bank.beta, Frac(3362, 2425))

C1_Witness ==
    /\ Built /\ Valid(bank) /\ call.op = "Across"
    /\ Lt(mcross(bank), mmax(bank))
    /\ Lt(Amin(bank), call.ret) /\ Lt(call.ret, AM(bank, Zero))

----------------------------------------------------------------------------
(* C2 *)

\* C2 (as stated): for every A >= 0 and every valid parameter set exactly one
\* band condition is true, and breturn and nreach take the branch of that band.
C2_BandTotality ==
    (Built /\ Valid(bank) /\ Elementwise)
        => \A i \in 1 .. Len(call.arg) :
              Ge(call.arg[i], Zero)
                  => BandsOf(bank, call.arg[i]) = {call.branch[i]}

\* C2 (amended): the same, for the parameter sets whose thresholds are ordered
\* Amin() <= Across() <= AM(0).
C2_BandTotalityWhenOrdered ==
    (Built /\ Valid(bank) /\ Ordered(bank) /\ Elementwise)
        => \A i \in 1 .. Len(call.arg) :
              Ge(call.arg[i], Zero)
                  => BandsOf(bank, call.arg[i]) = {call.branch[i]}

\* both inclusive boundaries in one call: Across() goes to the equity-only
\* branch and AM(0) to the leveraged branch
C2_Witness ==
    /\ Built /\ Valid(bank) /\ Ordered(bank) /\ Elementwise
    /\ Len(call.arg) = 2
    /\ call.arg[1] = Across(bank) /\ Ge(call.arg[1], Zero) /\ call.branch[1] = 3
    /\ call.arg[2] = AM(bank, Zero) /\ call.branch[2] = 2

----------------------------------------------------------------------------
(* C3 *)

\* C3: at the crossing monitoring level the two collateral curves coincide,
\* AM(mcross()) = AMe(mcross()).
C3_CurvesCoincide ==
    (Built /\ Valid(bank) /\ call.op = "mcross")
        => (IsDef(call.ret) /\ AM(bank, call.ret) = AMe(bank, call.ret))

\* a bank whose curves differ away from the crossing
C3_Witness ==
    /\ Built /\ Valid(bank) /\ call.op = "mcross"
    /\ AM(bank, Zero) # AMe(bank, Zero)
    /\ AM(bank, call.ret) = AMe(bank, call.ret)

----------------------------------------------------------------------------
(* C4 *)

\* C4 (as stated): for every valid parameter set the leveraged and the
\* equity-only formulas of breturn give the same value at A = Across().
C4_ContinuityAtAcross ==
    (Built /\ Valid(bank) /\ call.op = "Across")
        => /\ IsDef(breturnLeveraged(bank, call.ret))
           /\ breturnLeveraged(bank, call.ret) = breturnEquity(bank, call.ret)

\* C4 (amended): the same, for the valid parameter sets where the denominator
\* of mon, (alpha-1)*beta*p + gamma*q, is not zero.
C4_ContinuityWhenMonDefined ==
    (Built /\ Valid(bank) /\ monDen(bank).n # 0 /\ call.op = "Across")
        => /\ IsDef(breturnLeveraged(bank, call.ret))
           /\ breturnLeveraged(bank, call.ret) = breturnEquity(bank, call.ret)

C4_Witness ==
    /\ Built /\ Valid(bank) /\ monDen(bank).n # 0 /\ call.op = "Across"
    /\ bank.beta # bank.gamma
    /\ breturnLeveraged(bank, call.ret) = breturnEquity(bank, call.ret)

----------------------------------------------------------------------------
(* C5 *)

\* C5 (as stated): for every valid parameter set, breturn is non-decreasing
\* in A at or above Amin().
C5_Monotone ==
    (Built /\ Valid(bank) /\ call.op = "breturn" /\ call.exc = "none")
        => \A i, j \in 1 .. Len(call.arg) :
              (Ge(call.arg[i], Amin(bank)) /\ Le(call.arg[i], call.arg[j]))
                  => /\ IsDef(call.ret[i]) /\ IsDef(call.ret[j])
                     /\ Le(call.ret[i], call.ret[j])

\* C5 (amended): the same, for the valid parameter sets with
\* beta * p >= gamma * q.
C5_MonotoneWhenPremiumNonNegative ==
    (/\ Built /\ Valid(bank)
     /\ Ge(Mul(bank.beta, bank.p), Mul(bank.gamma, bank.q))
     /\ call.op = "breturn" /\ call.exc = "none")
        => \A i, j \in 1 .. Len(call.arg) :
              (Ge(call.arg[i], Amin(bank)) /\ Le(call.arg[i], call.arg[j]))
                  => /\ IsDef(call.ret[i]) /\ IsDef(call.ret[j])
                     /\ Le(call.ret[i], call.ret[j])

\* a pair that crosses the boundary between the equity-only and the
\* leveraged band, with a strictly higher return
C5_Witness ==
    /\ Built /\ Valid(bank)
    /\ Ge(Mul(bank.beta, bank.p), Mul(bank.gamma, bank.q))
    /\ call.op = "breturn" /\ call.exc = "none"
    /\ Len(call.arg) = 2
    /\ call.branch = <<3, 2>>
    /\ Lt(call.arg[1], call.arg[2])
    /\ Lt(call.ret[1], call.ret[2])

----------------------------------------------------------------------------
(* C6 *)

\* C6: construction with an invalid parameter fails, so no instance with
\* invalid parameters exists.
C6_NoInvalidInstance == Built => Valid(bank)

----------------------------------------------------------------------------
(* C7 *)

\* C7: in nreach an element of the leveraged band whose denominator
\* Im(mon(a)) - F is zero or negative gives the not-a-number marker, and no
\* element is infinite or negative (nor does the call fail as a whole).
C7_ReachNeverInfinite ==
    (Built /\ Valid(bank) /\ call.op = "nreach")
        => /\ call.exc = "none"
           /\ \A i \in 1 .. Len(call.arg) :
                 /\ call.ret[i].tag # "inf"
                 /\ call.ret[i].tag = "num" => Ge(call.ret[i].val, Zero)
                 /\ (/\ InBand(bank, call.arg[i], 2)
                     /\ Le(nreachDen(bank, call.arg[i]), Zero))
                        => call.ret[i].tag = "nan"

----------------------------------------------------------------------------
(* C8 *)

\* C8: for A in the leveraged band, 0 <= mon(A) < mcross().
C8_MonInRange ==
    (Built /\ Valid(bank) /\ call.op = "mon" /\ InBand(bank, call.arg, 2))
        => /\ IsDef(call.ret)
           /\ Ge(call.ret, Zero)
           /\ Lt(call.ret, mcross(bank))

\* a level strictly inside the leveraged band
C8_Witness ==
    /\ Built /\ Valid(bank) /\ call.op = "mon" /\ InBand(bank, call.arg, 2)
    /\ Lt(call.arg, AM(bank, Zero))
    /\ Gt(call.ret, Zero) /\ Lt(call.ret, mcross(bank))

----------------------------------------------------------------------------
(* C9 *)

\* C9 (as stated): for every valid parameter set, minmon(A) = mon(A) in the
\* leveraged band and minmon(A) = monE(A) in the equity-only band.
C9_MinmonAgrees ==
    (Built /\ Valid(bank) /\ call.op = "minmon")
        => /\ InBand(bank, call.arg, 2) => call.ret = mon(bank, call.arg)
           /\ InBand(bank, call.arg, 3) => call.ret = monE(bank, call.arg)

\* C9 (amended): the same, for the valid parameter sets with beta >= gamma.
C9_MinmonAgreesWhenEquityDearer ==
    (Built /\ Valid(bank) /\ Ge(bank.beta, bank.gamma) /\ call.op = "minmon")
        => /\ InBand(bank, call.arg, 2) => call.ret = mon(bank, call.arg)
           /\ InBand(bank, call.arg, 3) => call.ret = monE(bank, call.arg)

\* a level of the leveraged band where the two formulas differ
C9_Witness ==
    /\ Built /\ Valid(bank) /\ Ge(bank.beta, bank.gamma) /\ call.op = "minmon"
    /\ InBand(bank, call.arg, 2)
    /\ mon(bank, call.arg) # monE(bank, call.arg)
    /\ call.ret = mon(bank, call.arg)

----------------------------------------------------------------------------
(* C10 *)

====
